---- MODULE Spec2Model ----
(***************************************************************************)
(* Model of the returnlinter analyzer (returnlinter.go).                   *)
(*                                                                         *)
(* One behaviour is one invocation of the Preorder callback of run on one  *)
(* function declaration: the signature test, the ast.Inspect walk of the   *)
(* body, and for every http.HandlerFunc(func...) found, the recursive      *)
(* descent checkHandlerBody / checkNestedWriteHeader /                     *)
(* checkBlockForWriteHeader, unrolled on an explicit call stack.           *)
(*                                                                         *)
(* Syntax trees are records tagged by k with the go/ast type name.  A      *)
(* position (token.Pos) is the path of child indices from the function     *)
(* body to the node; source order is the lexicographic order of paths.     *)
(* Only the children that can hold statements or calls are kept: the       *)
(* Init/Cond/Tag/Key expressions of control statements and the left-hand   *)
(* sides of assignments are left out of the trees.                         *)
(***************************************************************************)
EXTENDS Naturals, Sequences, FiniteSets

\* ---------------------------------------------------------------- bounds
MaxSize == 3     \* statements in a generated closure body
MaxDepth == 2    \* wrappers around a core list in the nesting family
MaxClauses == 2  \* clauses of a generated switch / select

\* ------------------------------------------------------------- the trees
Nil == [k |-> "nil"]
Ident(name) == [k |-> "Ident", Name |-> name]
BasicLit == [k |-> "BasicLit"]
SelectorExpr(x, sel) == [k |-> "SelectorExpr", X |-> x, Sel |-> sel]
CallExpr(fun, args) == [k |-> "CallExpr", Fun |-> fun, Args |-> args]
BlockStmt(list) == [k |-> "BlockStmt", List |-> list]
FuncLit(list) == [k |-> "FuncLit", Body |-> BlockStmt(list)]
ExprStmt(x) == [k |-> "ExprStmt", X |-> x]
ReturnStmt(results) == [k |-> "ReturnStmt", Results |-> results]
AssignStmt(rhs) == [k |-> "AssignStmt", Rhs |-> rhs]
EmptyStmt == [k |-> "EmptyStmt"]
IfStmt(list, else) == [k |-> "IfStmt", Body |-> BlockStmt(list), Else |-> else]
BodyStmt(kind, list) == [k |-> kind, Body |-> BlockStmt(list)]
Clause(kind, list) == [k |-> kind, Body |-> list]
Field(names, type) == [Names |-> names, Type |-> type]
FieldList(list) == [k |-> "FieldList", List |-> list]
FuncDecl(params, results, body) ==
  [k |-> "FuncDecl", Params |-> params, Results |-> results, Body |-> body]

\* The children ast.Walk descends into, in its order.
Children(n) ==
  CASE n.k = "BlockStmt" -> n.List
    [] n.k = "ExprStmt" -> <<n.X>>
    [] n.k = "ReturnStmt" -> n.Results
    [] n.k = "AssignStmt" -> n.Rhs
    [] n.k = "IfStmt" -> IF n.Else = Nil THEN <<n.Body>> ELSE <<n.Body, n.Else>>
    [] n.k \in {"ForStmt", "RangeStmt", "SwitchStmt", "TypeSwitchStmt",
                "SelectStmt", "FuncLit"} -> <<n.Body>>
    [] n.k \in {"CaseClause", "CommClause"} -> n.Body
    [] n.k = "CallExpr" -> <<n.Fun>> \o n.Args
    [] n.k = "SelectorExpr" -> <<n.X, Ident(n.Sel)>>
    [] OTHER -> <<>>

\* The node at path p under n.  The child is bound by a quantifier so that
\* the descent holds a value, not an unevaluated expression, at each level.
RECURSIVE NodeAt(_, _)
NodeAt(n, p) ==
  IF p = <<>> THEN n
  ELSE CHOOSE r \in {NodeAt(c, Tail(p)) : c \in {Children(n)[Head(p)]}} : TRUE

ChildPaths(n, p) == [j \in 1..Len(Children(n)) |-> Append(p, j)]

\* ------------------------------------------------ the analyzer's helpers
HTTPHandler == SelectorExpr(Ident("http"), "Handler")

isHTTPHandler(expr) ==
  IF expr.k # "SelectorExpr" THEN FALSE
  ELSE IF expr.X.k # "Ident" THEN FALSE
  ELSE expr.X.Name = "http" /\ expr.Sel = "Handler"

isMiddlewarePattern(funcDecl) ==
  IF funcDecl.Results = Nil THEN FALSE
  ELSE IF Len(funcDecl.Results.List) # 1 THEN FALSE
  ELSE isHTTPHandler(funcDecl.Results.List[1].Type)

\* isHandlerFuncCall that forgets to compare the package name
isHandlerFuncCall_AnyPkg(callExpr) ==
  IF callExpr.Fun.k # "SelectorExpr" THEN FALSE
  ELSE IF callExpr.Fun.X.k # "Ident" THEN FALSE
  ELSE callExpr.Fun.Sel = "HandlerFunc"

isHandlerFuncCall(callExpr) ==
  IF callExpr.Fun.k # "SelectorExpr" THEN FALSE
  ELSE IF callExpr.Fun.X.k # "Ident" THEN FALSE
  ELSE callExpr.Fun.X.Name = "http" /\ callExpr.Fun.Sel = "HandlerFunc"

\* IsWriteHeaderCall that also accepts a bare call WriteHeader(...)
IsWriteHeaderCall_Bare(expr) ==
  IF expr.k # "CallExpr" THEN FALSE
  ELSE IF expr.Fun.k = "Ident" THEN expr.Fun.Name = "WriteHeader"
  ELSE IF expr.Fun.k # "SelectorExpr" THEN FALSE
  ELSE expr.Fun.Sel = "WriteHeader"

IsWriteHeaderCall(expr) ==
  IF expr.k # "CallExpr" THEN FALSE
  ELSE IF expr.Fun.k # "SelectorExpr" THEN FALSE
  ELSE expr.Fun.Sel = "WriteHeader"

\* IsFollowedByReturn that accepts a return anywhere later in the list
IsFollowedByReturn_Later(stmts, currentIndex) ==
  \E j \in (currentIndex + 1)..Len(stmts) : stmts[j].k = "ReturnStmt"

\* stmts is 1-based here: currentIndex + 1 >= len(stmts) reads i >= Len(stmts)
IsFollowedByReturn(stmts, currentIndex) ==
  IF currentIndex >= Len(stmts) THEN FALSE
  ELSE stmts[currentIndex + 1].k = "ReturnStmt"

\* isEmptyStmt: defined by the package, called by none of its functions
isEmptyStmt(stmt) == stmt.k = "EmptyStmt"

\* The callback of ast.Inspect: does this node start checkHandlerBody?
IsCheckedAdapter(node) ==
  IF node.k # "CallExpr" THEN FALSE
  ELSE IF ~isHandlerFuncCall(node) THEN FALSE
  ELSE IF Len(node.Args) = 0 THEN FALSE
  ELSE node.Args[1].k = "FuncLit"

\* Frames of the recursive descent.  A loop frame is one of the three
\* "for i, stmt := range list" loops, at index i of the list owned by the
\* node at p; a call frame is a pending checkNestedWriteHeader(stmt at p).
Loop(fn, p) == [t |-> "loop", fn |-> fn, p |-> p, i |-> 1]
Call(p) == [t |-> "call", fn |-> "checkNestedWriteHeader", p |-> p, i |-> 0]

\* checkBlockForWriteHeader(block at p): nothing for a nil block
BlockFrames(block, p) ==
  IF block = Nil THEN <<>> ELSE <<Loop("checkBlockForWriteHeader", p)>>

\* checkNestedWriteHeader that does not follow the else branch of an if
NestedFrames_NoElse(s, p) ==
  CASE s.k = "IfStmt" -> BlockFrames(s.Body, Append(p, 1))
    [] s.k = "BlockStmt" -> BlockFrames(s, p)
    [] s.k \in {"ForStmt", "RangeStmt", "SwitchStmt", "TypeSwitchStmt",
                "SelectStmt"} -> BlockFrames(s.Body, Append(p, 1))
    [] s.k = "CaseClause" -> <<Loop("CaseClause", p)>>
    [] OTHER -> <<>>

\* checkNestedWriteHeader that handles a case clause like a block: it
\* checks the statements of the first clause reached and no other clause
NestedFrames_FirstCase(s, p) ==
  CASE s.k = "IfStmt" ->
         BlockFrames(s.Body, Append(p, 1))
         \o (IF s.Else # Nil THEN <<Call(Append(p, 2))>> ELSE <<>>)
    [] s.k = "BlockStmt" -> BlockFrames(s, p)
    [] s.k \in {"ForStmt", "RangeStmt", "SwitchStmt", "TypeSwitchStmt",
                "SelectStmt"} -> BlockFrames(s.Body, Append(p, 1))
    [] s.k = "CaseClause" ->
         IF p[Len(p)] = 1 THEN <<Loop("CaseClause", p)>> ELSE <<>>
    [] OTHER -> <<>>

\* checkNestedWriteHeader that checks an else block itself and then also
\* recurses on it
NestedFrames_ElseTwice(s, p) ==
  CASE s.k = "IfStmt" ->
         BlockFrames(s.Body, Append(p, 1))
         \o (IF s.Else.k = "BlockStmt"
             THEN BlockFrames(s.Else, Append(p, 2)) ELSE <<>>)
         \o (IF s.Else # Nil THEN <<Call(Append(p, 2))>> ELSE <<>>)
    [] s.k = "BlockStmt" -> BlockFrames(s, p)
    [] s.k \in {"ForStmt", "RangeStmt", "SwitchStmt", "TypeSwitchStmt",
                "SelectStmt"} -> BlockFrames(s.Body, Append(p, 1))
    [] s.k = "CaseClause" -> <<Loop("CaseClause", p)>>
    [] OTHER -> <<>>

\* checkNestedWriteHeader(s at p): the calls it makes, in order
NestedFrames(s, p) ==
  CASE s.k = "IfStmt" ->
         BlockFrames(s.Body, Append(p, 1))
         \o (IF s.Else # Nil THEN <<Call(Append(p, 2))>> ELSE <<>>)
    [] s.k = "BlockStmt" -> BlockFrames(s, p)
    [] s.k = "ForStmt" -> BlockFrames(s.Body, Append(p, 1))
    [] s.k = "RangeStmt" -> BlockFrames(s.Body, Append(p, 1))
    [] s.k = "SwitchStmt" -> BlockFrames(s.Body, Append(p, 1))
    [] s.k = "TypeSwitchStmt" -> BlockFrames(s.Body, Append(p, 1))
    [] s.k = "SelectStmt" -> BlockFrames(s.Body, Append(p, 1))
    [] s.k = "CaseClause" -> <<Loop("CaseClause", p)>>
    [] OTHER -> <<>>

\* The message of the pass.Reportf call of each of the three loops
ReportMessage(fn) ==
  CASE fn = "checkHandlerBody" ->
         "WriteHeader call not immediately followed by return statement"
    [] fn = "CaseClause" ->
         "WriteHeader call not immediately followed by return statement"
    [] fn = "checkBlockForWriteHeader" ->
         "WriteHeader call not immediately followed by return statement"

\* The statement list a loop frame ranges over
ListOf(owner) == IF owner.k = "BlockStmt" THEN owner.List ELSE owner.Body

\* ------------------------------------------------------------ the inputs
WH == ExprStmt(CallExpr(SelectorExpr(Ident("w"), "WriteHeader"), <<>>))
Wr == ExprStmt(CallExpr(SelectorExpr(Ident("w"), "Write"), <<>>))
Ret == ReturnStmt(<<>>)
Adapter(list) ==
  CallExpr(SelectorExpr(Ident("http"), "HandlerFunc"), <<FuncLit(list)>>)

Leaves == {WH, Wr, Ret, EmptyStmt}

\* Every statement list of a given number of statements (clauses count as
\* statements), over all the statement kinds of the trees.
RECURSIVE ListsOfSize(_), StmtsOfSize(_), ClausesOfSize(_, _)
ListsOfSize(n) ==
  IF n = 0 THEN {<<>>}
  ELSE UNION {{<<s>> \o r : s \in StmtsOfSize(j), r \in ListsOfSize(n - j)} :
              j \in 1..n}
ClausesOfSize(kind, n) ==
  IF n = 0 THEN {<<>>}
  ELSE UNION {{<<Clause(kind, l)>> \o r :
                 l \in ListsOfSize(j - 1), r \in ClausesOfSize(kind, n - j)} :
              j \in 1..n}
StmtsOfSize(n) ==
  IF n = 1 THEN Leaves
  ELSE {IfStmt(l, Nil) : l \in ListsOfSize(n - 1)}
       \cup {BlockStmt(l) : l \in ListsOfSize(n - 1)}
       \cup {BodyStmt(kind, l) :
               kind \in {"ForStmt", "RangeStmt"}, l \in ListsOfSize(n - 1)}
       \cup UNION {{IfStmt(l, e) :
                      l \in ListsOfSize(j),
                      e \in {s \in StmtsOfSize(n - 1 - j) :
                               s.k \in {"BlockStmt", "IfStmt"}}} :
                   j \in 1..(n - 3)}
       \cup {BodyStmt(kind, c) :
               kind \in {"SwitchStmt", "TypeSwitchStmt"},
               c \in ClausesOfSize("CaseClause", n - 1)}
       \cup {BodyStmt("SelectStmt", c) : c \in ClausesOfSize("CommClause", n - 1)}
       \cup {AssignStmt(<<Adapter(l)>>) : l \in ListsOfSize(n - 1)}

SizeLists == UNION {ListsOfSize(n) : n \in 0..MaxSize}

\* A candidate alone, followed by a return, by another statement, and by
\* another statement and then a return.
CoreLists == {<<WH>>, <<WH, Ret>>, <<WH, Wr>>, <<WH, Wr, Ret>>}

Wrappers == {"then", "else", "elseif", "block", "for", "range",
             "switch", "typeswitch", "select"}

\* One nesting construct around a list, followed by a return in the
\* enclosing list.
Wrap(w, l) ==
  <<CASE w = "then" -> IfStmt(l, Nil)
      [] w = "else" -> IfStmt(<<Wr>>, BlockStmt(l))
      [] w = "elseif" -> IfStmt(<<Wr>>, IfStmt(l, Nil))
      [] w = "block" -> BlockStmt(l)
      [] w = "for" -> BodyStmt("ForStmt", l)
      [] w = "range" -> BodyStmt("RangeStmt", l)
      [] w = "switch" -> BodyStmt("SwitchStmt", <<Clause("CaseClause", l)>>)
      [] w = "typeswitch" ->
           BodyStmt("TypeSwitchStmt", <<Clause("CaseClause", l)>>)
      [] w = "select" -> BodyStmt("SelectStmt", <<Clause("CommClause", l)>>),
    Ret>>

RECURSIVE ChainLists(_)
ChainLists(d) ==
  IF d = 0 THEN CoreLists
  ELSE ChainLists(d - 1)
       \cup {Wrap(w, l) : w \in Wrappers, l \in ChainLists(d - 1)}

RECURSIVE ClauseSeqs(_, _)
ClauseSeqs(kind, n) ==
  IF n = 0 THEN {<<>>}
  ELSE {<<Clause(kind, l)>> \o r :
          l \in CoreLists, r \in ClauseSeqs(kind, n - 1)}

SwitchLists ==
  UNION {{<<BodyStmt("SwitchStmt", c)>> : c \in ClauseSeqs("CaseClause", n)}
         \cup {<<BodyStmt("TypeSwitchStmt", c)>> :
                 c \in ClauseSeqs("CaseClause", n)}
         \cup {<<BodyStmt("SelectStmt", c)>> :
                 c \in ClauseSeqs("CommClause", n)} : n \in 1..MaxClauses}

\* Expressions an expression statement can hold
SampleExprs ==
  {CallExpr(SelectorExpr(Ident("w"), "WriteHeader"), <<BasicLit>>),
   CallExpr(SelectorExpr(Ident("rw"), "WriteHeader"), <<>>),
   CallExpr(SelectorExpr(SelectorExpr(Ident("c"), "w"), "WriteHeader"),
            <<BasicLit, BasicLit>>),
   CallExpr(SelectorExpr(CallExpr(Ident("f"), <<>>), "WriteHeader"), <<>>),
   CallExpr(Ident("WriteHeader"), <<BasicLit>>),
   CallExpr(SelectorExpr(Ident("w"), "Write"), <<BasicLit>>),
   CallExpr(SelectorExpr(CallExpr(SelectorExpr(Ident("w"), "Header"), <<>>),
                         "Set"), <<BasicLit>>),
   CallExpr(SelectorExpr(Ident("fmt"), "Println"), <<>>),
   CallExpr(SelectorExpr(Ident("WriteHeader"), "Write"), <<>>),
   CallExpr(SelectorExpr(Ident("w"), "writeHeader"), <<>>),
   SelectorExpr(Ident("w"), "WriteHeader"),
   Ident("WriteHeader"),
   BasicLit}

ExprLists ==
  {<<ExprStmt(e)>> : e \in SampleExprs}
  \cup {<<ExprStmt(e), Ret>> : e \in SampleExprs}
  \cup {<<ExprStmt(e), ExprStmt(f)>> : e, f \in SampleExprs}

ClosureLists == SizeLists \cup ChainLists(MaxDepth) \cup SwitchLists \cup ExprLists

\* func Middleware(handler http.Handler) http.Handler { return http.HandlerFunc(func...{ list }) }
ClosureBody(list) == BlockStmt(<<ReturnStmt(<<Adapter(list)>>)>>)

\* Function bodies that differ in how (and whether) the adapter is called
AdapterBodies ==
  {BlockStmt(l) : l \in
    {<<ReturnStmt(<<Ident("handler")>>)>>,
     <<WH, Wr, ReturnStmt(<<Ident("handler")>>)>>,
     <<ReturnStmt(<<CallExpr(SelectorExpr(Ident("http"), "HandlerFunc"), <<>>)>>)>>,
     <<ReturnStmt(<<CallExpr(SelectorExpr(Ident("http"), "HandlerFunc"),
                             <<Ident("fn")>>)>>)>>,
     <<ReturnStmt(<<CallExpr(SelectorExpr(Ident("http"), "HandlerFunc"),
                             <<Ident("fn"), FuncLit(<<WH>>)>>)>>)>>,
     <<ReturnStmt(<<CallExpr(SelectorExpr(Ident("other"), "HandlerFunc"),
                             <<FuncLit(<<WH>>)>>)>>)>>,
     <<ReturnStmt(<<CallExpr(SelectorExpr(Ident("http"), "Handle"),
                             <<FuncLit(<<WH>>)>>)>>)>>,
     <<ReturnStmt(<<CallExpr(Ident("HandlerFunc"), <<FuncLit(<<WH>>)>>)>>)>>,
     <<ReturnStmt(<<CallExpr(SelectorExpr(SelectorExpr(Ident("net"), "http"),
                                          "HandlerFunc"),
                             <<FuncLit(<<WH>>)>>)>>)>>,
     <<AssignStmt(<<Adapter(<<WH>>)>>), ReturnStmt(<<Adapter(<<WH, Wr>>)>>)>>,
     <<ExprStmt(CallExpr(SelectorExpr(Ident("mux"), "Handle"),
                         <<BasicLit, Adapter(<<WH, Wr>>)>>)),
       ReturnStmt(<<Adapter(<<WH, Ret>>)>>)>>,
     <<IfStmt(<<ReturnStmt(<<Adapter(<<WH>>)>>)>>, Nil),
       ReturnStmt(<<Adapter(<<IfStmt(<<WH>>, Nil)>>)>>)>>}}

ParamLists ==
  {<<>>,
   <<Field(1, HTTPHandler)>>,
   <<Field(1, SelectorExpr(Ident("http"), "ResponseWriter"))>>,
   <<Field(2, HTTPHandler)>>,
   <<Field(1, HTTPHandler), Field(1, Ident("string"))>>}

ResultLists ==
  {Nil,
   FieldList(<<>>),
   FieldList(<<Field(0, HTTPHandler)>>),
   FieldList(<<Field(1, HTTPHandler)>>),
   FieldList(<<Field(2, HTTPHandler)>>),
   FieldList(<<Field(0, HTTPHandler), Field(0, Ident("error"))>>),
   FieldList(<<Field(0, HTTPHandler), Field(0, HTTPHandler)>>),
   FieldList(<<Field(0, Ident("Handler"))>>),
   FieldList(<<Field(0, SelectorExpr(Ident("other"), "Handler"))>>),
   FieldList(<<Field(0, SelectorExpr(Ident("http"), "HandlerFunc"))>>),
   FieldList(<<Field(0, SelectorExpr(SelectorExpr(Ident("net"), "http"),
                                     "Handler"))>>)}

Middleware(body) ==
  FuncDecl(<<Field(1, HTTPHandler)>>, FieldList(<<Field(0, HTTPHandler)>>), body)

FuncDecls ==
  {Middleware(ClosureBody(l)) : l \in ClosureLists}
  \cup {Middleware(b) : b \in AdapterBodies}
  \cup {FuncDecl(ps, rs, b) :
          ps \in ParamLists, rs \in ResultLists,
          b \in {Nil, ClosureBody(<<WH, Wr>>), ClosureBody(<<WH, Ret>>)}}

\* ------------------------------------------------------------- the state
VARIABLES
  decl,     \* the *ast.FuncDecl handed to the Preorder callback
  pc,       \* "preorder", "inspect", "check", "done" or "panic"
  walk,     \* positions ast.Inspect has still to visit, next first
  stack,    \* frames of the recursive descent, innermost first
  diags,    \* positions passed to pass.Reportf, in order
  msgs,     \* messages passed to pass.Reportf, in order
  bodies,   \* closure bodies passed to checkHandlerBody, in order
  lists,    \* owners of the statement lists the three loops ranged over
  visited,  \* statements passed to checkNestedWriteHeader
  tested    \* expressions passed to IsWriteHeaderCall, with the result

vars == <<decl, pc, walk, stack, diags, msgs, bodies, lists, visited, tested>>

At(p) == NodeAt(decl.Body, p)

Init ==
  /\ decl \in FuncDecls
  /\ pc = "preorder"
  /\ walk = <<>>
  /\ stack = <<>>
  /\ diags = <<>>
  /\ msgs = <<>>
  /\ bodies = <<>>
  /\ lists = {}
  /\ visited = {}
  /\ tested = {}

\* run: the function does not match, the callback returns
NotMiddleware ==
  /\ pc = "preorder"
  /\ ~isMiddlewarePattern(decl)
  /\ pc' = "done"
  /\ UNCHANGED <<decl, walk, stack, diags, msgs, bodies, lists, visited, tested>>

\* run: ast.Inspect(funcDecl.Body, ...) on a body
InspectBody ==
  /\ pc = "preorder"
  /\ isMiddlewarePattern(decl)
  /\ decl.Body # Nil
  /\ pc' = "inspect"
  /\ walk' = <<<<>>>>
  /\ UNCHANGED <<decl, stack, diags, msgs, bodies, lists, visited, tested>>

\* run: ast.Inspect(funcDecl.Body, ...) on a declaration without body.  The
\* argument is a nil *ast.BlockStmt in a non-nil ast.Node: the callback
\* returns true for it and ast.Walk then reads n.List of the nil pointer.
InspectNilBody ==
  /\ pc = "preorder"
  /\ isMiddlewarePattern(decl)
  /\ decl.Body = Nil
  /\ pc' = "panic"
  /\ UNCHANGED <<decl, walk, stack, diags, msgs, bodies, lists, visited, tested>>

\* ast.Inspect visits a node for which the callback only returns true
InspectNode ==
  /\ pc = "inspect"
  /\ walk # <<>>
  /\ ~IsCheckedAdapter(At(Head(walk)))
  /\ walk' = ChildPaths(At(Head(walk)), Head(walk)) \o Tail(walk)
  /\ UNCHANGED <<decl, pc, stack, diags, msgs, bodies, lists, visited, tested>>

\* ast.Inspect visits http.HandlerFunc(func...): checkHandlerBody is called
\* on the literal's body (child 2 of the call, child 1 of the literal)
InspectAdapter ==
  /\ pc = "inspect"
  /\ walk # <<>>
  /\ IsCheckedAdapter(At(Head(walk)))
  /\ LET body == Head(walk) \o <<2, 1>> IN
       /\ stack' = <<Loop("checkHandlerBody", body)>>
       /\ bodies' = Append(bodies, body)
       /\ lists' = lists \cup {body}
  /\ pc' = "check"
  /\ walk' = ChildPaths(At(Head(walk)), Head(walk)) \o Tail(walk)
  /\ UNCHANGED <<decl, diags, msgs, visited, tested>>

\* ast.Inspect has visited every node: the callback of Preorder returns
InspectDone ==
  /\ pc = "inspect"
  /\ walk = <<>>
  /\ pc' = "done"
  /\ UNCHANGED <<decl, walk, stack, diags, msgs, bodies, lists, visited, tested>>

\* One iteration of "for i, stmt := range list": the candidate test, the
\* report, and the call of checkNestedWriteHeader(stmt)
LoopIter ==
  /\ pc = "check"
  /\ stack # <<>>
  /\ Head(stack).t = "loop"
  /\ LET f == Head(stack)
         list == ListOf(At(f.p))
     IN /\ f.i <= Len(list)
        /\ LET stmt == list[f.i]
               pos == Append(f.p, f.i)
           IN /\ IF stmt.k = "ExprStmt"
                 THEN /\ tested' = tested \cup
                           {[x |-> stmt.X, r |-> IsWriteHeaderCall(stmt.X)]}
                      /\ IF IsWriteHeaderCall(stmt.X)
                            /\ ~IsFollowedByReturn(list, f.i)
                         THEN /\ diags' = Append(diags, pos)
                              /\ msgs' = Append(msgs, ReportMessage(f.fn))
                         ELSE UNCHANGED <<diags, msgs>>
                 ELSE UNCHANGED <<tested, diags, msgs>>
              /\ stack' = <<Call(pos), [f EXCEPT !.i = f.i + 1]>> \o Tail(stack)
  /\ UNCHANGED <<decl, pc, walk, bodies, lists, visited>>

\* The loop has passed the last statement: the function returns
LoopExit ==
  /\ pc = "check"
  /\ stack # <<>>
  /\ Head(stack).t = "loop"
  /\ Head(stack).i > Len(ListOf(At(Head(stack).p)))
  /\ stack' = Tail(stack)
  /\ UNCHANGED <<decl, pc, walk, diags, msgs, bodies, lists, visited, tested>>

\* checkNestedWriteHeader(stmt): the type switch and the calls of its case
Nested ==
  /\ pc = "check"
  /\ stack # <<>>
  /\ Head(stack).t = "call"
  /\ LET p == Head(stack).p
         new == NestedFrames(At(p), p)
     IN /\ stack' = new \o Tail(stack)
        /\ visited' = visited \cup {p}
        /\ lists' = lists \cup {new[j].p : j \in {j \in 1..Len(new) : new[j].t = "loop"}}
  /\ UNCHANGED <<decl, pc, walk, diags, msgs, bodies, tested>>

\* checkHandlerBody has returned to the callback of ast.Inspect
CheckReturn ==
  /\ pc = "check"
  /\ stack = <<>>
  /\ pc' = "inspect"
  /\ UNCHANGED <<decl, walk, stack, diags, msgs, bodies, lists, visited, tested>>

Next ==
  \/ NotMiddleware
  \/ InspectBody
  \/ InspectNilBody
  \/ InspectNode
  \/ InspectAdapter
  \/ InspectDone
  \/ LoopIter
  \/ LoopExit
  \/ Nested
  \/ CheckReturn

Spec == Init /\ [][Next]_vars

\* run is one sequential call: as long as a step is possible, one is taken
FairSpec == Spec /\ WF_vars(Next)

\* ---------------------------------------------- vocabulary of the claims
Range(f) == {f[j] : j \in DOMAIN f}

\* An expression statement that is a call of a method named WriteHeader
IsCandidate(s) ==
  /\ s.k = "ExprStmt"
  /\ s.X.k = "CallExpr"
  /\ s.X.Fun.k = "SelectorExpr"
  /\ s.X.Fun.Sel = "WriteHeader"

\* Index i + 1 exists in the list and holds a return statement
ReturnFollows(list, i) == i + 1 <= Len(list) /\ list[i + 1].k = "ReturnStmt"

\* How many diagnostics were reported at a position
Reports(p) == Cardinality({j \in 1..Len(diags) : diags[j] = p})

\* The adjacency rule on the list owned by the node at o: every candidate of
\* the list is reported exactly when no return follows it
RuleHolds(o) ==
  LET list == ListOf(At(o)) IN
    \A i \in 1..Len(list) :
      IsCandidate(list[i]) => (Reports(Append(o, i)) > 0 <=> ~ReturnFollows(list, i))

IsPrefix(a, b) == Len(a) <= Len(b) /\ SubSeq(b, 1, Len(a)) = a

\* Source order of two positions
RECURSIVE PosLess(_, _)
PosLess(a, b) ==
  IF a = <<>> THEN b # <<>>
  ELSE IF b = <<>> THEN FALSE
  ELSE IF Head(a) # Head(b) THEN Head(a) < Head(b)
  ELSE PosLess(Tail(a), Tail(b))

\* Every position of the tree under the node n at position p
RECURSIVE AllPaths(_, _)
AllPaths(n, p) ==
  {p} \cup UNION {AllPaths(Children(n)[j], Append(p, j)) : j \in 1..Len(Children(n))}

RECURSIVE NumValues(_)
NumValues(fields) ==
  IF fields = <<>> THEN 0
  ELSE (IF Head(fields).Names = 0 THEN 1 ELSE Head(fields).Names)
       + NumValues(Tail(fields))

\* Exactly one result, of the qualified type http.Handler
OneHandlerResult(d) ==
  /\ d.Results # Nil
  /\ NumValues(d.Results.List) = 1
  /\ d.Results.List[1].Type = HTTPHandler

\* C2: a declaration that does not declare exactly one result of type
\* http.Handler (a grouped result (a, b http.Handler) declares two) yields
\* no diagnostic, whatever its body holds.
C2_OtherSignaturesSilent == ~OneHandlerResult(decl) => diags = <<>>

\* C3: run never fails, in particular not on a matched declaration without
\* body, for which it completes with no diagnostic.
C3_NeverFails == pc # "panic"

\* The statements of the clauses of the switch or select at position s, as
\* pairs of the clause's position and the index in the clause
ClauseIndex(s) ==
  UNION {{<<s \o <<1, j>>, i>> : i \in 1..Len(At(s).Body.List[j].Body)} :
         j \in 1..Len(At(s).Body.List)}

\* C4: in every select statement the checker reaches, a WriteHeader call of
\* a communication clause is reported if and only if no return follows it
\* in that clause.
C4_SelectClauses ==
  pc = "done" =>
    \A s \in visited :
      At(s).k = "SelectStmt" =>
        \A c \in ClauseIndex(s) :
          LET list == At(c[1]).Body IN
            IsCandidate(list[c[2]]) =>
              (Reports(Append(c[1], c[2])) > 0 <=> ~ReturnFollows(list, c[2]))

\* C5: for every switch and type switch the checker reaches, each statement
\* of each case clause is reported once if it is a WriteHeader call not
\* followed by a return in its clause, and not at all otherwise; so the
\* diagnostics of the switch number the violating candidates of its clauses.
C5_CaseClauses ==
  pc = "done" =>
    \A s \in visited :
      At(s).k \in {"SwitchStmt", "TypeSwitchStmt"} =>
        \A c \in ClauseIndex(s) :
          LET list == At(c[1]).Body IN
            Reports(Append(c[1], c[2])) =
              (IF IsCandidate(list[c[2]]) /\ ~ReturnFollows(list, c[2])
               THEN 1 ELSE 0)

\* a switch of two arms, the first compliant and the second violating, with
\* the one diagnostic at the second arm's call
C5_Witness ==
  /\ pc = "done"
  /\ \E s \in visited :
       /\ At(s).k = "SwitchStmt"
       /\ At(s).Body.List = <<Clause("CaseClause", <<WH, Ret>>),
                              Clause("CaseClause", <<WH, Wr>>)>>
       /\ diags = <<s \o <<1, 2, 1>>>>

\* A call http.HandlerFunc(func...) : the adapter with a literal first
IsAdapterCall(n) ==
  /\ n.k = "CallExpr"
  /\ n.Fun = SelectorExpr(Ident("http"), "HandlerFunc")
  /\ Len(n.Args) >= 1
  /\ n.Args[1].k = "FuncLit"

\* The positions of the adapter calls of the function body, at any depth
AdapterCalls ==
  IF decl.Body = Nil THEN {}
  ELSE {p \in AllPaths(decl.Body, <<>>) : IsAdapterCall(At(p))}

\* C6: in a matched function the checker has been invoked on a closure body
\* once for each http.HandlerFunc call with a literal first argument, at any
\* depth, and on nothing else; without such a call there is no diagnostic.
C6_OncePerAdapter ==
  (pc = "done" /\ isMiddlewarePattern(decl)) =>
    /\ \A p \in AdapterCalls :
         Cardinality({j \in 1..Len(bodies) : bodies[j] = p \o <<2, 1>>}) = 1
    /\ \A j \in 1..Len(bodies) :
         \E p \in AdapterCalls : bodies[j] = p \o <<2, 1>>
    /\ AdapterCalls = {} => diags = <<>>

\* two closures checked, the second inside the first
C6_Witness ==
  /\ pc = "done"
  /\ Len(bodies) = 2
  /\ IsPrefix(bodies[1], bodies[2])
  /\ Len(diags) = 2

\* C7: diagnostics are emitted in the source order of their statements.
C7_SourceOrder ==
  \A i, j \in 1..Len(diags) : i < j => PosLess(diags[i], diags[j])

\* The results the claims give for the sample expressions
SampleWriteHeaderCalls ==
  {CallExpr(SelectorExpr(Ident("w"), "WriteHeader"), <<BasicLit>>),
   CallExpr(SelectorExpr(Ident("rw"), "WriteHeader"), <<>>),
   CallExpr(SelectorExpr(SelectorExpr(Ident("c"), "w"), "WriteHeader"),
            <<BasicLit, BasicLit>>),
   CallExpr(SelectorExpr(CallExpr(Ident("f"), <<>>), "WriteHeader"), <<>>),
   CallExpr(SelectorExpr(Ident("w"), "WriteHeader"), <<>>)}

\* C8: IsWriteHeaderCall is true exactly of a call whose callee is a
\* selector with selected name WriteHeader, whatever the receiver and the
\* arguments; it is false of a bare call, of other method names and of
\* expressions that are not calls.
C8_IsWriteHeaderCall ==
  \A t \in tested :
    /\ t.r <=> (t.x.k = "CallExpr" /\ t.x.Fun.k = "SelectorExpr"
                /\ t.x.Fun.Sel = "WriteHeader")
    /\ t.x \in SampleExprs => (t.r <=> t.x \in SampleWriteHeaderCalls)

\* one run that tested a call on a selector receiver with two arguments, true,
\* and the bare call, false
C8_Witness ==
  /\ [x |-> CallExpr(SelectorExpr(SelectorExpr(Ident("c"), "w"), "WriteHeader"),
                     <<BasicLit, BasicLit>>), r |-> TRUE] \in tested
  /\ [x |-> CallExpr(Ident("WriteHeader"), <<BasicLit>>), r |-> FALSE] \in tested

\* Exactly one parameter, of the qualified type http.Handler
OneHandlerParam(d) ==
  /\ NumValues(d.Params) = 1
  /\ d.Params[1].Type = HTTPHandler

\* C9: a declaration whose parameters are not exactly one http.Handler is
\* not checked and yields no diagnostic.
C9_OtherParamsSilent == ~OneHandlerParam(decl) => diags = <<>>

\* The owners of the statement lists nested in the block at position p
\* through if, else, else-if, for, range and plain blocks, at any depth
RECURSIVE NestedLists(_), NestedIn(_)
NestedLists(p) ==
  {p} \cup UNION {NestedIn(Append(p, i)) : i \in 1..Len(At(p).List)}
NestedIn(q) ==
  LET s == At(q) IN
    CASE s.k = "IfStmt" ->
           NestedLists(Append(q, 1))
           \cup (IF s.Else = Nil THEN {} ELSE NestedIn(Append(q, 2)))
      [] s.k = "BlockStmt" -> NestedLists(q)
      [] s.k \in {"ForStmt", "RangeStmt"} -> NestedLists(Append(q, 1))
      [] OTHER -> {}

\* C10: every candidate of a list nested in a checked closure body through
\* if, else, else-if, for, range and plain blocks, at any depth, is reported
\* if and only if no return follows it in its own list.
C10_NestedLists ==
  pc = "done" =>
    \A b \in Range(bodies) : \A o \in NestedLists(b) : RuleHolds(o)

\* for { if .. else if { WriteHeader; Write } ; return } ; return : the call
\* two levels down is reported although returns follow in both outer lists
C10_Witness ==
  /\ pc = "done"
  /\ decl = Middleware(ClosureBody(Wrap("for", Wrap("elseif", <<WH, Wr>>))))
  /\ diags = <<<<1, 1, 2, 1>> \o <<1, 1>> \o <<1, 2, 1>> \o <<1>>>>

\* The number of nodes of the tree under n
RECURSIVE TreeSize(_)
RECURSIVE SumSizes(_)
SumSizes(ns) == IF ns = <<>> THEN 0 ELSE TreeSize(Head(ns)) + SumSizes(Tail(ns))
TreeSize(n) == 1 + SumSizes(Children(n))

\* C11: for every finite syntax tree one analysis run eventually completes.
C11_RunCompletes == <>(pc = "done")

\* what remains true of the descent itself: every run comes to an end,
\* completed or failed
C11_RunEnds == <>(pc \in {"done", "panic"})

\* what remains true of the descent itself: a frame pushed by
\* checkNestedWriteHeader is for a position strictly inside the statement
\* it was called on, or for a block that is that statement
C11_DescentShrinks ==
  [][(pc = "check" /\ stack # <<>> /\ Head(stack).t = "call") =>
       \A j \in 1..(Len(stack') - Len(stack) + 1) :
         /\ IsPrefix(Head(stack).p, stack'[j].p)
         /\ stack'[j].t = "call" => Len(stack'[j].p) > Len(Head(stack).p)
         /\ TreeSize(At(stack'[j].p)) <= TreeSize(At(Head(stack).p))]_vars

\* After index i the list holds one or more empty statements and then a
\* return statement
EmptiesThenReturn(list, i) ==
  \E j \in (i + 2)..Len(list) :
    /\ list[j].k = "ReturnStmt"
    /\ \A m \in (i + 1)..(j - 1) : isEmptyStmt(list[m])

\* C12: a WriteHeader call followed in its list by one or more empty
\* statements and then a return is taken as followed by a return:
\* IsFollowedByReturn is true of it and it is not reported.
C12_SkipsEmptyStmts ==
  pc = "done" =>
    \A o \in lists :
      LET list == ListOf(At(o)) IN
        \A i \in 1..Len(list) :
          (IsCandidate(list[i]) /\ EmptiesThenReturn(list, i)) =>
            /\ IsFollowedByReturn(list, i)
            /\ Reports(Append(o, i)) = 0

\* C13: no statement is reported twice: the positions of the diagnostics
\* are pairwise distinct, each is the position of an expression statement
\* that is a WriteHeader call, and each carries the one fixed message.
C13_NoDuplicates ==
  /\ \A i, j \in 1..Len(diags) : i # j => diags[i] # diags[j]
  /\ \A j \in 1..Len(diags) : IsCandidate(At(diags[j]))
  /\ Len(msgs) = Len(diags)
  /\ \A j \in 1..Len(msgs) :
       msgs[j] = "WriteHeader call not immediately followed by return statement"

\* a closure checked inside a checked closure, one diagnostic in each
C13_Witness ==
  /\ pc = "done"
  /\ Len(bodies) = 2
  /\ Len(diags) = 2
  /\ Len(diags[1]) = Len(bodies[1]) + 1
  /\ IsPrefix(bodies[2], diags[2])
  /\ IsPrefix(bodies[1], bodies[2])
  /\ msgs[1] = msgs[2]

====
